---- MODULE Spec2Model ----
(***************************************************************************)
(* Voice pipeline of backend/services/voice_service.py (VoiceService) and  *)
(* its /transcribe and /voice-chat endpoints in backend/api/voice.py.      *)
(*                                                                         *)
(* One request at a time is followed through                               *)
(*   transcribe_audio -> _convert_audio_format.convert_sync                *)
(*                    -> _recognize_speech_from_file.recognize_sync        *)
(*                    -> _clean_transcript -> result dict -> HTTP answer.  *)
(* Library calls (pydub, speech_recognition, vosk) are the environment:    *)
(* their outcomes are chosen nondeterministically from small sets.         *)
(* Text is a sequence of one-character strings; durations are in ms, as    *)
(* len(AudioSegment) is.                                                   *)
(*                                                                         *)
(* Spec follows a request of /transcribe, SpecLive adds the fairness of    *)
(* the steps that do not wait for the cloud, SpecVoice follows a request   *)
(* of /voice-chat through transcription, chat and speech synthesis, and    *)
(* SpecPool follows concurrent requests whose blocking parts run on the    *)
(* worker threads of self.executor. SpecClean applies _clean_transcript to  *)
(* texts of any shape, and SpecSpeech follows the requests that reach      *)
(* text_to_speech without a transcription.                                 *)
(***************************************************************************)
EXTENDS Integers, Sequences, FiniteSets, TLC

VARIABLES
    pc,                   \* position of the request in the pipeline
    audio_data,           \* the uploaded bytes: [size, decodable]
    language,             \* language code of the request
    fmt_idx,              \* convert_sync: index of the loop over formats_to_try
    load_errors,          \* convert_sync: per-format decode failures
    audio_segment,        \* convert_sync: the AudioSegment being processed
    temp_file,            \* the NamedTemporaryFile: NoFile, EmptyFile or a WAV
    recognition_results,  \* recognize_sync: the attempt trail
    active,               \* backend whose call is in progress, or "none"
    calls,                \* number of invocations of each backend in this request
    heard,                \* recognize_sync: what the last backend call returned
    returned_by,          \* backend whose text recognize_sync returned, or "none"
    raised,               \* exception travelling up to transcribe_audio, or NoError
    text,                 \* transcribe_audio: the local variable text
    result,               \* the dict returned by transcribe_audio, or NoResult
    response,             \* HTTP answer of the /transcribe endpoint, or NoResponse
    vosk_model,           \* self._vosk_model: None or the path it was loaded from
    rec_model,            \* _try_vosk_recognition: model given to KaldiRecognizer
    final_results,        \* _try_vosk_recognition: texts of the final results
    word_results,         \* _try_vosk_recognition: words of the final results
    partial_results,      \* _try_vosk_recognition: texts of the partial results
    endpoint,             \* the endpoint that received the request, or "none"
    ai_response_text,     \* voice_chat: the reply of the chat service
    tts_call,             \* text_to_speech: the arguments of the call in progress
    tts_engine,           \* self.tts_engine: its properties voice and rate
    utterance,            \* what the engine was last told to speak, and how
    speech_audio,         \* text_to_speech: size of the audio returned
    task,                 \* per concurrent request: what its coroutine awaits
    job,                  \* per concurrent request: position of its worker-thread function
    req,                  \* per concurrent request: its parameters
    wav,                  \* per concurrent request: its temporary WAV file exists
    model_loads,          \* number of vosk.Model objects constructed
    raw_text              \* _clean_transcript: its argument, <<>> when it is None

vosk_locals == <<rec_model, final_results, word_results, partial_results>>

tts_vars == <<ai_response_text, tts_call, tts_engine, utterance, speech_audio>>

pool_vars == <<task, job, req, wav, model_loads>>

\* what the steps of transcribe_audio leave alone
other_vars == <<endpoint, tts_vars, pool_vars, raw_text>>

vars == <<pc, audio_data, language, fmt_idx, load_errors, audio_segment,
          temp_file, recognition_results, active, calls, heard, returned_by,
          raised, text, result, response, vosk_model, vosk_locals, endpoint,
          tts_vars, pool_vars, raw_text>>

----------------------------------------------------------------------------
(* Bounds of the model *)

\* longest text, in characters, a backend returns
MaxTextLen == 2
\* durations considered reach MaxDurSteps * 100 ms
MaxDurSteps == 6
\* chunks of the Vosk stream for which the decoder reports something
MaxChunks == 2
\* requests in progress at the same time
MaxRequests == 2
\* pieces a text given to the sanitizer is made of
MaxPieces == 3

----------------------------------------------------------------------------
(* Values *)

None == "None"
NoSegment == [kind |-> "NoSegment"]
NoFile == [kind |-> "NoFile"]
EmptyFile == [kind |-> "EmptyFile"]
NoError == [msg |-> "NoError", detail |-> <<>>]
NoResult == [kind |-> "NoResult"]
NoResponse == [status |-> 0, detail |-> NoError]
NoReturn == [backend |-> "none", text |-> <<>>]

Backends == {"Google", "Vosk", "Sphinx"}

\* one-character strings; " " stands for any whitespace character
Chars == {" ", "a"}
Whitespace == {" "}

RECURSIVE SeqsUpTo(_, _)
SeqsUpTo(S, n) ==
    IF n = 0 THEN {<<>>}
    ELSE LET shorter == SeqsUpTo(S, n - 1)
         IN  shorter \cup {Append(s, c) : s \in {t \in shorter : Len(t) = n - 1}, c \in S}

Texts == SeqsUpTo(Chars, MaxTextLen)

\* durations in ms: around every multiple of 100 up to the bound
Durations == {d \in 0..(MaxDurSteps * 100) : d % 100 \in {0, 99}}

Languages == {"vi-VN", "en-US", "ja-JP"}

Error(m) == [msg |-> m, detail |-> <<>>]

Requests == 1..MaxRequests

NoText == [len |-> 0, blank |-> TRUE]
NoCall == [text |-> NoText, voice |-> None, speed |-> 0]
NoUtterance == [text |-> NoText, voice |-> None, rate |-> 0]
NoRequest == [kind |-> "none"]

\* self.tts_engine is None: pyttsx3.init() failed
NoEngine == [voice |-> None, rate |-> 0]

\* _initialize_tts: the voice chosen at start, rate 150
InitialEngine == [voice |-> "default", rate |-> 150]

----------------------------------------------------------------------------
(* VoiceService.__init__ and the state before the first request *)

Init ==
    /\ pc = "idle"
    /\ audio_data = [size |-> 0, decodable |-> {}]
    /\ language = "vi-VN"
    /\ fmt_idx = 1
    /\ load_errors = <<>>
    /\ audio_segment = NoSegment
    /\ temp_file = NoFile
    /\ recognition_results = <<>>
    /\ active = "none"
    /\ calls = [b \in Backends |-> 0]
    /\ heard = NoReturn
    /\ returned_by = "none"
    /\ raised = NoError
    /\ text = <<>>
    /\ result = NoResult
    /\ response = NoResponse
    /\ vosk_model = None
    /\ rec_model = None
    /\ final_results = <<>>
    /\ word_results = <<>>
    /\ partial_results = <<>>
    /\ endpoint = "none"
    /\ ai_response_text = NoText
    /\ tts_call = NoCall
    /\ tts_engine = InitialEngine
    /\ utterance = NoUtterance
    /\ speech_audio = 0
    /\ task = [r \in Requests |-> "none"]
    /\ job = [r \in Requests |-> "none"]
    /\ req = [r \in Requests |-> NoRequest]
    /\ wav = [r \in Requests |-> FALSE]
    /\ model_loads = 0
    /\ raw_text = <<>>

----------------------------------------------------------------------------
(* api/voice.py: POST /transcribe *)

\* 10 * 1024 * 1024, the size limit of the endpoint
MaxAudioBytes == 10485760

formats_to_try == <<"auto", "webm", "ogg", "mp3", "m4a", "wav", "flac">>

\* the uploads considered: size in bytes, and the container interpretations
\* under which the bytes decode
Uploads ==
    { [size |-> 0, decodable |-> {}],
      [size |-> 1, decodable |-> {}],
      [size |-> 1, decodable |-> {"auto", "wav"}],
      [size |-> MaxAudioBytes, decodable |-> {"ogg", "flac"}],
      [size |-> MaxAudioBytes + 1, decodable |-> {"auto", "wav"}] }

\* Leaving the handler by an exception: it travels to the except clause of
\* transcribe_audio.
Fail(e) ==
    /\ raised' = e
    /\ pc' = "except"

\* transcribe_audio (endpoint), up to the call of the service: size checks, then
\* VoiceService.transcribe_audio creates the temporary file.
Upload ==
    /\ pc \in {"idle", "responded"}
    /\ \E upload \in Uploads, lang \in Languages :
        /\ audio_data' = upload
        /\ language' = lang
        /\ IF upload.size > MaxAudioBytes
           THEN /\ response' = [status |-> 400, detail |-> Error("Audio file too large. Maximum size is 10MB.")]
                /\ pc' = "responded"
                /\ UNCHANGED temp_file
           ELSE IF upload.size = 0
           THEN /\ response' = [status |-> 400, detail |-> Error("Empty audio file")]
                /\ pc' = "responded"
                /\ UNCHANGED temp_file
           ELSE /\ response' = NoResponse
                /\ temp_file' = EmptyFile
                /\ pc' = "decode"
    /\ fmt_idx' = 1
    /\ load_errors' = <<>>
    /\ audio_segment' = NoSegment
    /\ recognition_results' = <<>>
    /\ active' = "none"
    /\ calls' = [b \in Backends |-> 0]
    /\ heard' = NoReturn
    /\ returned_by' = "none"
    /\ raised' = NoError
    /\ text' = <<>>
    /\ result' = NoResult
    /\ rec_model' = None
    /\ final_results' = <<>>
    /\ word_results' = <<>>
    /\ partial_results' = <<>>
    /\ endpoint' = "transcribe"
    /\ UNCHANGED <<vosk_model, tts_vars, pool_vars, raw_text>>

----------------------------------------------------------------------------
(* VoiceService._convert_audio_format.convert_sync *)

FrameRates == {8000, 16000, 44100}
ChannelCounts == {1, 2}
SampleWidths == {1, 2, 4}

\* what AudioSegment.from_file can return; fx lists the preprocessing steps
\* applied to the segment and pad is the length of the silence appended to it
Waveforms ==
    [len : Durations, frame_rate : FrameRates, channels : ChannelCounts,
     sample_width : SampleWidths, fx : {<<>>}, pad : {0}]

\* the loop without its "break": later formats are tried after a success
Decode_NoBreak ==
    /\ pc = "decode"
    /\ IF fmt_idx > Len(formats_to_try)
       THEN IF audio_segment = NoSegment
            THEN /\ Fail(Error("Unsupported audio format. Ensure ffmpeg is installed and audio is valid."))
                 /\ UNCHANGED <<fmt_idx, load_errors, audio_segment>>
            ELSE /\ pc' = "preprocess"
                 /\ UNCHANGED <<fmt_idx, load_errors, audio_segment, raised>>
       ELSE IF formats_to_try[fmt_idx] \in audio_data.decodable
       THEN /\ \E w \in Waveforms : audio_segment' = w
            /\ fmt_idx' = fmt_idx + 1
            /\ UNCHANGED <<pc, load_errors, raised>>
       ELSE /\ load_errors' = Append(load_errors, formats_to_try[fmt_idx])
            /\ fmt_idx' = fmt_idx + 1
            /\ UNCHANGED <<pc, audio_segment, raised>>
    /\ UNCHANGED <<audio_data, language, temp_file, recognition_results, active,
                   calls, heard, returned_by, text, result, response, vosk_model,
                   vosk_locals, other_vars>>

\* the loop without "load_errors.append": the reasons are not collected
Decode_DropsReasons ==
    /\ pc = "decode"
    /\ IF fmt_idx > Len(formats_to_try)
       THEN /\ Fail(Error("Unsupported audio format. Ensure ffmpeg is installed and audio is valid."))
            /\ UNCHANGED <<fmt_idx, load_errors, audio_segment>>
       ELSE IF formats_to_try[fmt_idx] \in audio_data.decodable
       THEN /\ \E w \in Waveforms : audio_segment' = w
            /\ pc' = "preprocess"
            /\ UNCHANGED <<fmt_idx, load_errors, raised>>
       ELSE /\ fmt_idx' = fmt_idx + 1
            /\ UNCHANGED <<pc, load_errors, audio_segment, raised>>
    /\ UNCHANGED <<audio_data, language, temp_file, recognition_results, active,
                   calls, heard, returned_by, text, result, response, vosk_model,
                   vosk_locals, other_vars>>

\* One iteration of the loop over formats_to_try, and the check after the loop.
Decode ==
    /\ pc = "decode"
    /\ IF fmt_idx > Len(formats_to_try)
       THEN /\ Fail(Error("Unsupported audio format. Ensure ffmpeg is installed and audio is valid."))
            /\ UNCHANGED <<fmt_idx, load_errors, audio_segment>>
       ELSE IF formats_to_try[fmt_idx] \in audio_data.decodable
       THEN /\ \E w \in Waveforms : audio_segment' = w
            /\ pc' = "preprocess"
            /\ UNCHANGED <<fmt_idx, load_errors, raised>>
       ELSE /\ load_errors' = Append(load_errors, formats_to_try[fmt_idx])
            /\ fmt_idx' = fmt_idx + 1
            /\ UNCHANGED <<pc, audio_segment, raised>>
    /\ UNCHANGED <<audio_data, language, temp_file, recognition_results, active,
                   calls, heard, returned_by, text, result, response, vosk_model,
                   vosk_locals, other_vars>>

\* preprocessing is applied only to audio longer than this many ms
PreprocessMinLen == 200

convert_unchanged ==
    UNCHANGED <<audio_data, language, fmt_idx, load_errors, temp_file,
                recognition_results, active, calls, heard, returned_by, text,
                result, response, vosk_model, vosk_locals, other_vars>>

\* SkipPreprocessing that skips the silence trim only: normalization is next
SkipPreprocessing_TrimOnly ==
    /\ pc = "preprocess"
    /\ ~(audio_segment.len > PreprocessMinLen)
    /\ pc' = "normalize"
    /\ UNCHANGED <<audio_segment, raised>>
    /\ convert_unchanged

\* "if len(audio_segment) > 200" is false: no preprocessing
SkipPreprocessing ==
    /\ pc = "preprocess"
    /\ ~(audio_segment.len > PreprocessMinLen)
    /\ pc' = "format"
    /\ UNCHANGED <<audio_segment, raised>>
    /\ convert_unchanged

\* strip_silence: the result is any part of the audio, possibly nothing; an
\* exception is caught and the segment keeps its value.
StripSilence ==
    /\ pc = "preprocess"
    /\ audio_segment.len > PreprocessMinLen
    /\ \/ /\ \E d \in {x \in Durations : x <= audio_segment.len} :
               audio_segment' = [audio_segment EXCEPT !.len = d,
                                                      !.fx = Append(@, "strip_silence")]
          /\ pc' = "normalize"
       \/ /\ pc' = "format"
          /\ UNCHANGED audio_segment
    /\ UNCHANGED raised
    /\ convert_unchanged

Normalize ==
    /\ pc = "normalize"
    /\ \/ /\ audio_segment' = [audio_segment EXCEPT !.fx = Append(@, "normalize")]
          /\ pc' = "compress"
       \/ /\ pc' = "format"
          /\ UNCHANGED audio_segment
    /\ UNCHANGED raised
    /\ convert_unchanged

CompressDynamicRange ==
    /\ pc = "compress"
    /\ \/ audio_segment' = [audio_segment EXCEPT !.fx = Append(@, "compress_dynamic_range")]
       \/ UNCHANGED audio_segment
    /\ pc' = "format"
    /\ UNCHANGED raised
    /\ convert_unchanged

\* the canonical format of the recognizers
TargetFrameRate == 16000
TargetChannels == 1
TargetSampleWidth == 2

\* ToCanonical without set_channels(1)
ToCanonical_KeepsChannels(seg) ==
    [seg EXCEPT !.frame_rate = TargetFrameRate,
                !.sample_width = TargetSampleWidth]

\* .set_frame_rate(16000).set_channels(1).set_sample_width(2)
ToCanonical(seg) ==
    [seg EXCEPT !.frame_rate = TargetFrameRate,
                !.channels = TargetChannels,
                !.sample_width = TargetSampleWidth]

SetFormat ==
    /\ pc = "format"
    /\ audio_segment' = ToCanonical(audio_segment)
    /\ pc' = "pad"
    /\ UNCHANGED raised
    /\ convert_unchanged

\* audio shorter than PadBelow ms is padded with silence to PadTo ms
PadBelow == 300
PadTo == 500

\* frame rate of AudioSegment.silent when none is given (pydub's default)
SilentFrameRate == 11025

\* AudioSegment.silent(duration): 16-bit mono silence
Silent(duration) ==
    [len |-> duration, frame_rate |-> SilentFrameRate, channels |-> 1,
     sample_width |-> 2, fx |-> <<>>, pad |-> 0]

Max(a, b) == IF a >= b THEN a ELSE b

\* seg1 + seg2: both are brought to the larger frame rate, channel count and
\* sample width, then seg2 is appended.
Concat(seg1, seg2) ==
    [len |-> seg1.len + seg2.len,
     frame_rate |-> Max(seg1.frame_rate, seg2.frame_rate),
     channels |-> Max(seg1.channels, seg2.channels),
     sample_width |-> Max(seg1.sample_width, seg2.sample_width),
     fx |-> seg1.fx,
     pad |-> seg1.pad + seg2.len]

\* Padded with the threshold of the preprocessing, 200 ms, in the test
Padded_WrongThreshold(seg) ==
    IF seg.len < PreprocessMinLen THEN Concat(seg, Silent(PadTo - seg.len)) ELSE seg

\* "if len(audio_segment) < 300": pad to 500 ms
Padded(seg) ==
    IF seg.len < PadBelow THEN Concat(seg, Silent(PadTo - seg.len)) ELSE seg

Pad ==
    /\ pc = "pad"
    /\ audio_segment' = Padded(audio_segment)
    /\ pc' = "check"
    /\ UNCHANGED raised
    /\ convert_unchanged

\* export(format="wav", parameters=[-acodec pcm_s16le, -ar 16000, -ac 1]):
\* the file is written with these parameters
Exported(seg) ==
    [kind |-> "WAV", len |-> seg.len, frame_rate |-> 16000, channels |-> 1,
     sample_width |-> 2]

\* the final quality check, then export to the temporary file; export may fail
\* in the library (ffmpeg).
CheckAndExport ==
    /\ pc = "check"
    /\ IF audio_segment.len = 0
       THEN /\ Fail(Error("Audio segment is empty after processing"))
            /\ UNCHANGED <<audio_segment, temp_file>>
       ELSE \/ /\ temp_file' = Exported(audio_segment)
               /\ audio_segment' = NoSegment
               /\ pc' = "load"
               /\ UNCHANGED raised
            \/ /\ Fail(Error("export failed"))
               /\ UNCHANGED <<audio_segment, temp_file>>
    /\ UNCHANGED <<audio_data, language, fmt_idx, load_errors,
                   recognition_results, active, calls, heard, returned_by, text,
                   result, response, vosk_model, vosk_locals, other_vars>>

----------------------------------------------------------------------------
(* Text: Python's str operations on sequences of characters *)

\* str.strip()
RECURSIVE LStrip(_)
LStrip(t) ==
    IF t # <<>> /\ Head(t) \in Whitespace THEN LStrip(Tail(t)) ELSE t

RECURSIVE RStrip(_)
RStrip(t) ==
    IF t # <<>> /\ t[Len(t)] \in Whitespace
    THEN RStrip(SubSeq(t, 1, Len(t) - 1))
    ELSE t

Strip(t) == RStrip(LStrip(t))

\* " ".join(list)
RECURSIVE Join(_)
Join(list) ==
    IF list = <<>> THEN <<>>
    ELSE IF Len(list) = 1 THEN list[1]
    ELSE list[1] \o <<" ">> \o Join(Tail(list))

\* Usable without the strip(): a whitespace-only text counts as a transcript
Usable_NoStrip(t) == t # <<>>

\* "text and text.strip()": the text is usable
Usable(t) == t # <<>> /\ Strip(t) # <<>>

----------------------------------------------------------------------------
(* VoiceService._recognize_speech_from_file.recognize_sync *)

Attempt(b, o) == [backend |-> b, outcome |-> o]

\* recognition_results.append(...)
Record(b, o) == recognition_results' = Append(recognition_results, Attempt(b, o))

recognize_unchanged ==
    UNCHANGED <<audio_data, language, fmt_idx, load_errors, audio_segment,
                temp_file, result, response, other_vars>>

\* sr.AudioFile(file_path), adjust_for_ambient_noise, record
LoadAudio ==
    /\ pc = "load"
    /\ \/ /\ pc' = "google"
          /\ UNCHANGED raised
       \/ Fail(Error("Audio file could not be read"))
    /\ UNCHANGED <<recognition_results, active, calls, heard, returned_by, text,
                   vosk_model, vosk_locals>>
    /\ recognize_unchanged

\* return text.strip() from recognize_sync
ReturnText(b, t) ==
    /\ text' = Strip(t)
    /\ returned_by' = b
    /\ pc' = "clean"

\* 1. self.recognizer.recognize_google(audio, language=language) is entered
GoogleCall ==
    /\ pc = "google"
    /\ active = "none"
    /\ active' = "Google"
    /\ calls' = [calls EXCEPT !["Google"] = @ + 1]
    /\ UNCHANGED <<pc, recognition_results, heard, returned_by, raised, text,
                   vosk_model, vosk_locals>>
    /\ recognize_unchanged

ExceptionKinds == {"UnknownValueError", "RequestError", "Exception"}

\* the entry recorded for an exception of recognize_google or recognize_sphinx
ExceptOutcome(kind) ==
    IF kind = "UnknownValueError" THEN "Could not understand audio"
    ELSE IF kind = "RequestError" THEN "Request error"
    ELSE "Unexpected error"

\* GoogleText without the return: a usable text is dropped and Vosk is next
GoogleText_NoReturn(t) ==
    /\ pc' = "vosk"
    /\ UNCHANGED <<recognition_results, text, returned_by>>

\* GoogleText going on to Sphinx instead of Vosk after an empty transcript
GoogleText_SkipsVosk(t) ==
    IF Usable(t)
    THEN /\ ReturnText("Google", t)
         /\ UNCHANGED recognition_results
    ELSE /\ pc' = "sphinx"
         /\ UNCHANGED <<recognition_results, text, returned_by>>

\* what recognize_sync does with the text Google returned
GoogleText(t) ==
    IF Usable(t)
    THEN /\ ReturnText("Google", t)
         /\ UNCHANGED recognition_results
    ELSE /\ pc' = "vosk"
         /\ UNCHANGED <<recognition_results, text, returned_by>>

\* recognize_google returns a text or raises
GoogleReturn ==
    /\ pc = "google"
    /\ active = "Google"
    /\ active' = "none"
    /\ \/ \E t \in Texts :
            /\ heard' = [backend |-> "Google", text |-> t]
            /\ GoogleText(t)
       \/ \E kind \in ExceptionKinds :
            /\ Record("Google", ExceptOutcome(kind))
            /\ pc' = "vosk"
            /\ UNCHANGED <<heard, text, returned_by>>
    /\ UNCHANGED <<calls, raised, vosk_model, vosk_locals>>
    /\ recognize_unchanged

----------------------------------------------------------------------------
(* VoiceService._try_vosk_recognition *)

model_paths ==
    [ vi_VN |-> <<"/app/data/models/vosk-vi", "./data/models/vosk-vi",
                  "./models/vosk-model-vi", "vosk-model-vi-0.4">>,
      en_US |-> <<"/app/data/models/vosk-en", "./data/models/vosk-en",
                  "./models/vosk-model-en-us", "vosk-model-en-us-0.22">>,
      en_GB |-> <<"/app/data/models/vosk-en", "./data/models/vosk-en",
                  "./models/vosk-model-en-us", "vosk-model-en-us-0.22">> ]

\* paths_to_try before the environment path is added; a language without an
\* entry gets the Vietnamese paths
PathsFor(lang) ==
    IF lang = "en-US" THEN model_paths.en_US
    ELSE IF lang = "en-GB" THEN model_paths.en_GB
    ELSE model_paths.vi_VN

\* values of VOSK_MODEL_PATH, and the sets of directories that exist
EnvPaths == {None, "/opt/vosk-model"}
Filesystems ==
    { {},
      {"./data/models/vosk-vi"},
      {"./data/models/vosk-en", "vosk-model-en-us-0.22"},
      {"./data/models/vosk-vi", "./data/models/vosk-en", "/opt/vosk-model"} }

\* the first path of paths_to_try that is a directory, or None
RECURSIVE FirstDir(_, _)
FirstDir(paths, dirs) ==
    IF paths = <<>> THEN None
    ELSE IF Head(paths) \in dirs THEN Head(paths)
    ELSE FirstDir(Tail(paths), dirs)

\* model_path for a request
ModelPath(lang, env_path, dirs) ==
    FirstDir(IF env_path # None THEN <<env_path>> \o PathsFor(lang) ELSE PathsFor(lang),
             dirs)

\* an exception of _try_vosk_recognition reaches "except Exception as e" of
\* step 2 in recognize_sync: it is recorded and Sphinx is next
VoskRaise(msg) ==
    /\ Record("Vosk", msg)
    /\ active' = "none"
    /\ pc' = "sphinx"

\* 2. self._try_vosk_recognition(file_path, language) is entered
VoskCall ==
    /\ pc = "vosk"
    /\ active = "none"
    /\ active' = "Vosk"
    /\ calls' = [calls EXCEPT !["Vosk"] = @ + 1]
    /\ pc' = "vosk_open"
    /\ UNCHANGED <<recognition_results, heard, returned_by, raised, text,
                   vosk_model, vosk_locals>>
    /\ recognize_unchanged

\* import, model lookup, cached model load, checks of the WAV file, creation
\* of the KaldiRecognizer
VoskOpen ==
    /\ pc = "vosk_open"
    /\ \E installed \in BOOLEAN, env_path \in EnvPaths, dirs \in Filesystems, loads \in BOOLEAN :
        LET model_path == ModelPath(language, env_path, dirs)
        IN  IF ~installed
            THEN /\ VoskRaise("Vosk not installed")
                 /\ UNCHANGED <<vosk_model, rec_model>>
            ELSE IF model_path = None
            THEN /\ VoskRaise("Vosk model not found")
                 /\ UNCHANGED <<vosk_model, rec_model>>
            ELSE IF vosk_model = None /\ ~loads
            THEN /\ VoskRaise("Vosk model failed to load")
                 /\ UNCHANGED <<vosk_model, rec_model>>
            ELSE /\ vosk_model' = IF vosk_model = None THEN model_path ELSE vosk_model
                 /\ IF temp_file.channels # 1
                    THEN /\ VoskRaise("Vosk requires mono audio")
                         /\ UNCHANGED rec_model
                    ELSE /\ rec_model' = vosk_model'
                         /\ pc' = "vosk_stream"
                         /\ UNCHANGED <<recognition_results, active>>
    /\ UNCHANGED <<calls, heard, returned_by, raised, text, final_results,
                   word_results, partial_results>>
    /\ recognize_unchanged

\* texts the decoder reports, and the word lists of a final result
VoskTexts == {<<>>, <<"a">>, <<"a", "a">>, <<" ">>}
WordLists == {<<>>, << <<"a">> >>, << <<>>, <<"a">> >>}

\* what one chunk yields: AcceptWaveform is true and Result() has a text and
\* words, or it is false and PartialResult() has a partial text
ChunkOutcomes ==
    [accept : {TRUE}, text : VoskTexts, words : WordLists]
        \cup [accept : {FALSE}, text : VoskTexts, words : {<<>>}]

\* the word_info entries with a word
RECURSIVE Words(_)
Words(ws) ==
    IF ws = <<>> THEN <<>>
    ELSE IF Head(ws) # <<>> THEN <<Head(ws)>> \o Words(Tail(ws))
    ELSE Words(Tail(ws))

\* the body of the loop over the chunks, for one chunk
Chunk(lists, o) ==
    IF o.accept
    THEN [final |-> IF o.text # <<>> THEN Append(lists.final, o.text) ELSE lists.final,
          words |-> lists.words \o Words(o.words),
          partial |-> lists.partial]
    ELSE [final |-> lists.final,
          words |-> lists.words,
          partial |-> IF o.text # <<>> THEN Append(lists.partial, o.text) ELSE lists.partial]

RECURSIVE Chunks(_, _)
Chunks(lists, outcomes) ==
    IF outcomes = <<>> THEN lists
    ELSE Chunks(Chunk(lists, Head(outcomes)), Tail(outcomes))

\* the loop over the chunks of the file and rec.FinalResult(); the decoder may
\* fail
VoskStream ==
    /\ pc = "vosk_stream"
    /\ \/ \E outcomes \in [1..MaxChunks -> ChunkOutcomes], last \in VoskTexts :
            LET lists == Chunks([final |-> <<>>, words |-> <<>>, partial |-> <<>>], outcomes)
            IN  /\ final_results' = IF last # <<>> THEN Append(lists.final, last) ELSE lists.final
                /\ word_results' = lists.words
                /\ partial_results' = lists.partial
                /\ pc' = "vosk_compile"
                /\ UNCHANGED <<recognition_results, active>>
       \/ /\ VoskRaise("Vosk decoder error")
          /\ UNCHANGED <<final_results, word_results, partial_results>>
    /\ UNCHANGED <<calls, heard, returned_by, raised, text, vosk_model, rec_model>>
    /\ recognize_unchanged

\* max(partial_results, key=len): the first of the longest
RECURSIVE Longest(_)
Longest(list) ==
    IF Len(list) = 1 THEN list[1]
    ELSE LET rest == Longest(Tail(list))
         IN  IF Len(rest) > Len(list[1]) THEN rest ELSE list[1]

\* result_text with the first two branches exchanged: words before finals
ResultText_WordsFirst(finals, words, partials) ==
    IF words # <<>> THEN Strip(Join(words))
    ELSE IF finals # <<>> THEN Strip(Join(finals))
    ELSE IF partials # <<>> THEN Strip(Longest(partials))
    ELSE <<>>

\* result_text: final results, else words, else the longest partial
ResultText(finals, words, partials) ==
    IF finals # <<>> THEN Strip(Join(finals))
    ELSE IF words # <<>> THEN Strip(Join(words))
    ELSE IF partials # <<>> THEN Strip(Longest(partials))
    ELSE <<>>

\* VoskText with the test for a usable text lost: every result is recorded as
\* an empty transcript
VoskText_DropsText(t) ==
    /\ Record("Vosk", "Empty transcript")
    /\ pc' = "sphinx"
    /\ UNCHANGED <<text, returned_by>>

\* what recognize_sync does with the text _try_vosk_recognition returned
VoskText(t) ==
    IF Usable(t)
    THEN /\ ReturnText("Vosk", t)
         /\ UNCHANGED recognition_results
    ELSE /\ Record("Vosk", "Empty transcript")
         /\ pc' = "sphinx"
         /\ UNCHANGED <<text, returned_by>>

\* the result is compiled and validated; back in recognize_sync a usable
\* result is returned and an empty one recorded
VoskCompile ==
    /\ pc = "vosk_compile"
    /\ LET result_text == ResultText(final_results, word_results, partial_results)
       IN  IF result_text = <<>> \/ Len(Strip(result_text)) = 0
           THEN /\ VoskRaise("Vosk produced empty transcript")
                /\ UNCHANGED <<heard, text, returned_by>>
           ELSE /\ heard' = [backend |-> "Vosk", text |-> result_text]
                /\ active' = "none"
                /\ VoskText(result_text)
    /\ final_results' = <<>>
    /\ word_results' = <<>>
    /\ partial_results' = <<>>
    /\ UNCHANGED <<calls, raised, vosk_model, rec_model>>
    /\ recognize_unchanged

----------------------------------------------------------------------------
(* recognize_sync, step 3 (Sphinx) and step 4 (all failed) *)

\* language.startswith('en')
StartsWithEn(lang) == lang \in {"en-US", "en-GB"}

\* 3. recognize_sphinx is entered for English; for any other language the
\* attempt is recorded as not available
SphinxCall ==
    /\ pc = "sphinx"
    /\ active = "none"
    /\ IF StartsWithEn(language)
       THEN /\ active' = "Sphinx"
            /\ calls' = [calls EXCEPT !["Sphinx"] = @ + 1]
            /\ UNCHANGED <<pc, recognition_results>>
       ELSE /\ Record("Sphinx", "Not available for non-English")
            /\ pc' = "summary"
            /\ UNCHANGED <<active, calls>>
    /\ UNCHANGED <<heard, returned_by, raised, text, vosk_model, vosk_locals>>
    /\ recognize_unchanged

\* what recognize_sync does with the text Sphinx returned
SphinxText(t) ==
    IF Usable(t)
    THEN /\ ReturnText("Sphinx", t)
         /\ UNCHANGED recognition_results
    ELSE /\ Record("Sphinx", "Empty transcript")
         /\ pc' = "summary"
         /\ UNCHANGED <<text, returned_by>>

\* recognize_sphinx returns a text or raises
SphinxReturn ==
    /\ pc = "sphinx"
    /\ active = "Sphinx"
    /\ active' = "none"
    /\ \/ \E t \in Texts :
            /\ heard' = [backend |-> "Sphinx", text |-> t]
            /\ SphinxText(t)
       \/ \E kind \in ExceptionKinds :
            /\ Record("Sphinx", ExceptOutcome(kind))
            /\ pc' = "summary"
            /\ UNCHANGED <<heard, text, returned_by>>
    /\ UNCHANGED <<calls, raised, vosk_model, vosk_locals>>
    /\ recognize_unchanged

\* "<phrase>" in error_summary, error_summary being the joined attempt trail
InSummary(phrase, trail) == \E i \in 1..Len(trail) : trail[i].outcome = phrase

\* the exception raised when every backend failed: only the last message
\* includes error_summary
AllFailedError(trail) ==
    IF InSummary("Could not understand audio", trail)
    THEN Error("Audio khong the nhan dien duoc. Hay thu noi ro hon hoac ghi am lai.")
    ELSE IF InSummary("Request error", trail)
    THEN Error("Loi ket noi dich vu nhan dien giong noi. Kiem tra ket noi internet.")
    ELSE [msg |-> "Tat ca dich vu nhan dien giong noi deu that bai", detail |-> trail]

\* 4. all methods failed
Summary ==
    /\ pc = "summary"
    /\ Fail(AllFailedError(recognition_results))
    /\ UNCHANGED <<recognition_results, active, calls, heard, returned_by, text,
                   vosk_model, vosk_locals>>
    /\ recognize_unchanged

----------------------------------------------------------------------------
(* VoiceService._clean_transcript *)

\* re.sub(r'\s+', ' ', text)
RECURSIVE CollapseWhitespace(_)
CollapseWhitespace(t) ==
    IF t = <<>> THEN <<>>
    ELSE IF Head(t) \in Whitespace
    THEN <<" ">> \o CollapseWhitespace(LStrip(t))
    ELSE <<Head(t)>> \o CollapseWhitespace(Tail(t))

UpperToLower == ("A" :> "a") @@ ("C" :> "c") @@ ("X" :> "x")

LowerChar(c) == IF c \in DOMAIN UpperToLower THEN UpperToLower[c] ELSE c

\* str.lower()
Lower(t) == [i \in 1..Len(t) |-> LowerChar(t[i])]

vietnamese_corrections ==
    << <<"c", "h", "à", "o", " ", "b", "ạ", "n">>,
       <<"x", "i", "n", " ", "c", "h", "à", "o">>,
       <<"c", "ả", "m", " ", "ơ", "n">>,
       <<"t", "ạ", "m", " ", "b", "i", "ệ", "t">>,
       <<"l", "à", "m", " ", "ơ", "n">>,
       <<"x", "i", "n", " ", "l", "ỗ", "i">> >>

\* the phrase occurs in t at position i, ignoring case
MatchesAt(t, i, phrase) ==
    /\ i + Len(phrase) - 1 <= Len(t)
    /\ Lower(SubSeq(t, i, i + Len(phrase) - 1)) = phrase

\* "wrong in text_lower"
Contains(t_lower, phrase) == \E i \in 1..Len(t_lower) : MatchesAt(t_lower, i, phrase)

\* re.sub(re.escape(wrong), correct, text, flags=re.IGNORECASE): every match,
\* left to right, is replaced by correct
RECURSIVE ReSub(_, _, _)
ReSub(wrong, correct, t) ==
    IF t = <<>> THEN <<>>
    ELSE IF MatchesAt(t, 1, wrong)
    THEN correct \o ReSub(wrong, correct, SubSeq(t, Len(wrong) + 1, Len(t)))
    ELSE <<Head(t)>> \o ReSub(wrong, correct, Tail(t))

\* the loop over the corrections: every entry maps the phrase to itself
RECURSIVE ApplyCorrections(_, _, _)
ApplyCorrections(t, t_lower, table) ==
    IF table = <<>> THEN t
    ELSE LET wrong == Head(table)
             next == IF Contains(t_lower, wrong) THEN ReSub(wrong, wrong, t) ELSE t
         IN  ApplyCorrections(next, t_lower, Tail(table))

\* _clean_transcript without text.strip()
CleanTranscript_NoStrip(t) ==
    IF t = <<>> THEN <<>>
    ELSE LET cleaned == CollapseWhitespace(t)
         IN  ApplyCorrections(cleaned, Lower(cleaned), vietnamese_corrections)

\* _clean_transcript: strip, collapse the whitespace, apply the corrections
_clean_transcript(t) ==
    IF t = <<>> THEN <<>>
    ELSE LET cleaned == CollapseWhitespace(Strip(t))
         IN  ApplyCorrections(cleaned, Lower(cleaned), vietnamese_corrections)

\* the function as it is called: None and the empty text return ""
Sanitized(arg) ==
    IF arg = <<>> THEN <<>> ELSE _clean_transcript(arg[1])

\* pieces of the texts given to the sanitizer: whitespace, a letter, and a
\* phrase of the table in lower case, capitalized and cut short
Pieces ==
    { <<" ">>, <<"a">>,
      <<"x", "i", "n", " ", "c", "h", "à", "o">>,
      <<"X", "i", "n", " ", "C", "h", "à", "o">>,
      <<"x", "i", "n", " ">> }

RECURSIVE Flatten(_)
Flatten(list) ==
    IF list = <<>> THEN <<>> ELSE Head(list) \o Flatten(Tail(list))

CleanInputs == {Flatten(list) : list \in SeqsUpTo(Pieces, MaxPieces)}

\* the sanitizer is about to be called with any text, or with None
InitClean ==
    /\ pc = "sanitize"
    /\ audio_data = [size |-> 0, decodable |-> {}]
    /\ language = "vi-VN"
    /\ fmt_idx = 1
    /\ load_errors = <<>>
    /\ audio_segment = NoSegment
    /\ temp_file = NoFile
    /\ recognition_results = <<>>
    /\ active = "none"
    /\ calls = [b \in Backends |-> 0]
    /\ heard = NoReturn
    /\ returned_by = "none"
    /\ raised = NoError
    /\ text = <<>>
    /\ result = NoResult
    /\ response = NoResponse
    /\ vosk_model = None
    /\ rec_model = None
    /\ final_results = <<>>
    /\ word_results = <<>>
    /\ partial_results = <<>>
    /\ endpoint = "none"
    /\ ai_response_text = NoText
    /\ tts_call = NoCall
    /\ tts_engine = InitialEngine
    /\ utterance = NoUtterance
    /\ speech_audio = 0
    /\ task = [r \in Requests |-> "none"]
    /\ job = [r \in Requests |-> "none"]
    /\ req = [r \in Requests |-> NoRequest]
    /\ wav = [r \in Requests |-> FALSE]
    /\ model_loads = 0
    /\ raw_text \in {<<>>} \cup {<<t>> : t \in CleanInputs}

\* a call of _clean_transcript; its result is the argument of the next call
Sanitize ==
    /\ pc \in {"sanitize", "sanitized"}
    /\ text' = Sanitized(raw_text)
    /\ raw_text' = <<text'>>
    /\ pc' = IF pc = "sanitize" THEN "sanitized" ELSE "resanitized"
    /\ UNCHANGED <<audio_data, language, fmt_idx, load_errors, audio_segment,
                   temp_file, recognition_results, active, calls, heard,
                   returned_by, raised, result, response, vosk_model,
                   vosk_locals, endpoint, tts_vars, pool_vars>>

\* len(text.split())
RECURSIVE WordCount(_)
WordCount(t) ==
    LET s == LStrip(t)
    IN  IF s = <<>> THEN 0
        ELSE IF Len(s) > 1 /\ s[2] \notin Whitespace THEN WordCount(Tail(s))
        ELSE 1 + WordCount(Tail(s))

----------------------------------------------------------------------------
(* VoiceService.transcribe_audio: the result dict; confidence is in tenths.  *)
(* The fields timestamp, conversation_id and duration_estimate are left out. *)

\* SuccessResult with the trail added to the dict
SuccessResult_WithAttempts(t, lang) ==
    [text |-> t, language |-> lang, confidence |-> 9,
     word_count |-> IF t # <<>> THEN WordCount(t) ELSE 0,
     attempts |-> recognition_results]

SuccessResult(t, lang) ==
    [text |-> t, language |-> lang, confidence |-> 9,
     word_count |-> IF t # <<>> THEN WordCount(t) ELSE 0]

ErrorResult(e, lang) ==
    [text |-> <<>>, language |-> lang, confidence |-> 0, error |-> e,
     word_count |-> 0]

transcribe_unchanged ==
    UNCHANGED <<audio_data, language, fmt_idx, load_errors, audio_segment,
                recognition_results, active, calls, heard, returned_by, raised,
                response, vosk_model, vosk_locals, other_vars>>

\* text = self._clean_transcript(text); the result is built; the finally
\* clause removes the temporary file
CleanAndReturn ==
    /\ pc = "clean"
    /\ text' = _clean_transcript(text)
    /\ result' = SuccessResult(text', language)
    /\ temp_file' = NoFile
    /\ pc' = "return"
    /\ transcribe_unchanged

\* an exception of the conversion or the recognition: the finally clause
\* removes the temporary file, "except Exception as e" builds the error result
HandleException ==
    /\ pc = "except"
    /\ result' = ErrorResult(raised, language)
    /\ temp_file' = NoFile
    /\ pc' = "return"
    /\ UNCHANGED text
    /\ transcribe_unchanged

----------------------------------------------------------------------------
(* api/voice.py: POST /transcribe, after the service returned *)

\* str(e) of an exception
Str(e) == e.msg

\* result.get("error") is truthy
HasError(r) == "error" \in DOMAIN r /\ Str(r.error) # ""

\* the answer of the endpoint for a result
ResponseFor(r) ==
    IF HasError(r)
    THEN [status |-> 500, detail |-> r.error]
    ELSE [status |-> 200, detail |-> NoError]

Respond ==
    /\ pc = "return"
    /\ endpoint = "transcribe"
    /\ response' = ResponseFor(result)
    /\ pc' = "responded"
    /\ UNCHANGED <<audio_data, language, fmt_idx, load_errors, audio_segment,
                   temp_file, recognition_results, active, calls, heard,
                   returned_by, raised, text, result, vosk_model, vosk_locals,
                   other_vars>>

----------------------------------------------------------------------------
(* api/voice.py: POST /voice-chat, up to the reply of the chat service *)

\* the limit of /text-to-speech on the number of characters of a text
MaxTextLength == 1000

\* texts to speak, by their length and whether they are blank (empty after
\* strip)
SpokenTexts ==
    { [len |-> 0, blank |-> TRUE],
      [len |-> 1, blank |-> TRUE],
      [len |-> 1, blank |-> FALSE],
      [len |-> MaxTextLength, blank |-> FALSE],
      [len |-> MaxTextLength + 1, blank |-> FALSE] }

\* voice_chat, up to the call of the service: the file name and the data are
\* tested, then VoiceService.transcribe_audio creates the temporary file.
VoiceChatUpload ==
    /\ pc \in {"idle", "responded"}
    /\ \E upload \in Uploads, lang \in Languages, filename \in BOOLEAN :
        /\ audio_data' = upload
        /\ language' = lang
        /\ IF ~filename
           THEN /\ response' = [status |-> 400, detail |-> Error("No audio file provided")]
                /\ pc' = "responded"
                /\ UNCHANGED temp_file
           ELSE IF upload.size = 0
           THEN /\ response' = [status |-> 400, detail |-> Error("Empty audio file")]
                /\ pc' = "responded"
                /\ UNCHANGED temp_file
           ELSE /\ response' = NoResponse
                /\ temp_file' = EmptyFile
                /\ pc' = "decode"
    /\ fmt_idx' = 1
    /\ load_errors' = <<>>
    /\ audio_segment' = NoSegment
    /\ recognition_results' = <<>>
    /\ active' = "none"
    /\ calls' = [b \in Backends |-> 0]
    /\ heard' = NoReturn
    /\ returned_by' = "none"
    /\ raised' = NoError
    /\ text' = <<>>
    /\ result' = NoResult
    /\ rec_model' = None
    /\ final_results' = <<>>
    /\ word_results' = <<>>
    /\ partial_results' = <<>>
    /\ endpoint' = "voice_chat"
    /\ ai_response_text' = NoText
    /\ tts_call' = NoCall
    /\ utterance' = NoUtterance
    /\ speech_audio' = 0
    /\ UNCHANGED <<vosk_model, tts_engine, pool_vars, raw_text>>

\* speed 1.0, the default of text_to_speech, in hundredths
DefaultSpeed == 100

\* voice_chat after transcribe_audio returned: a failed or empty transcription
\* is answered with 400; else chat_service.process_chat gives the reply, which
\* is handed to text_to_speech when auto_speak is set. The locals of the
\* service call are gone.
VoiceChatReply ==
    /\ pc = "return"
    /\ endpoint = "voice_chat"
    /\ IF HasError(result)
       THEN /\ response' = [status |-> 400, detail |-> result.error]
            /\ pc' = "responded"
            /\ UNCHANGED <<ai_response_text, tts_call>>
       ELSE IF Strip(result.text) = <<>>
       THEN /\ response' = [status |-> 400, detail |-> Error("No speech detected in audio")]
            /\ pc' = "responded"
            /\ UNCHANGED <<ai_response_text, tts_call>>
       ELSE \/ \E reply \in SpokenTexts, auto_speak \in BOOLEAN :
                /\ ai_response_text' = reply
                /\ IF auto_speak
                   THEN /\ tts_call' = [text |-> reply, voice |-> None, speed |-> DefaultSpeed]
                        /\ pc' = "tts"
                        /\ UNCHANGED response
                   ELSE /\ response' = [status |-> 200, detail |-> NoError]
                        /\ pc' = "responded"
                        /\ UNCHANGED tts_call
            \/ /\ response' = [status |-> 500, detail |-> Error("Voice chat failed")]
               /\ pc' = "responded"
               /\ UNCHANGED <<ai_response_text, tts_call>>
    /\ fmt_idx' = 1
    /\ load_errors' = <<>>
    /\ recognition_results' = <<>>
    /\ active' = "none"
    /\ calls' = [b \in Backends |-> 0]
    /\ heard' = NoReturn
    /\ returned_by' = "none"
    /\ raised' = NoError
    /\ text' = <<>>
    /\ UNCHANGED <<audio_data, language, audio_segment, temp_file, result,
                   vosk_model, vosk_locals, endpoint, tts_engine, utterance,
                   speech_audio, pool_vars, raw_text>>

----------------------------------------------------------------------------
(* VoiceService.text_to_speech *)

BaseRate == 150
MinRate == 50
MaxRate == 300

Min(a, b) == IF a <= b THEN a ELSE b

\* the rate without max(50, min(300, ...))
Rate_NoClamp(speed) == (BaseRate * speed) \div 100

\* new_rate = max(50, min(300, int(base_rate * speed))), speed in hundredths
Rate(speed) == Max(MinRate, Min(MaxRate, (BaseRate * speed) \div 100))

tts_unchanged ==
    UNCHANGED <<audio_data, language, fmt_idx, load_errors, audio_segment,
                temp_file, recognition_results, active, calls, heard,
                returned_by, text, result, response, vosk_model, vosk_locals,
                endpoint, ai_response_text, tts_call, pool_vars, raw_text>>

\* text_to_speech up to save_to_file: without an engine the call fails; else
\* generate_speech sets the voice, if one is given and the engine accepts it,
\* and the rate
ConfigureSpeech ==
    /\ pc = "tts"
    /\ IF tts_engine = NoEngine
       THEN /\ raised' = Error("TTS generation failed: TTS engine not available")
            /\ pc' = "tts_return"
            /\ UNCHANGED tts_engine
       ELSE /\ \E accepted \in BOOLEAN :
                tts_engine' = [voice |-> IF tts_call.voice # None /\ accepted
                                         THEN tts_call.voice ELSE tts_engine.voice,
                               rate |-> Rate(tts_call.speed)]
            /\ pc' = "tts_save"
            /\ UNCHANGED raised
    /\ UNCHANGED <<utterance, speech_audio>>
    /\ tts_unchanged

\* sizes of the file the engine writes
AudioSizes == {0, 1}

\* generate_speech without the checks of the file: what was written is returned
GenerateSpeech_NoVerify ==
    /\ pc = "tts_save"
    /\ utterance' = [text |-> tts_call.text, voice |-> tts_engine.voice,
                     rate |-> tts_engine.rate]
    /\ \/ \E size \in AudioSizes :
            /\ speech_audio' = size
            /\ UNCHANGED raised
       \/ /\ raised' = Error("TTS generation failed: engine error")
          /\ UNCHANGED speech_audio
    /\ pc' = "tts_return"
    /\ UNCHANGED tts_engine
    /\ tts_unchanged

\* save_to_file(text, temp_path) and runAndWait(), then the file is verified,
\* read and removed; the engine may write nothing or raise
GenerateSpeech ==
    /\ pc = "tts_save"
    /\ utterance' = [text |-> tts_call.text, voice |-> tts_engine.voice,
                     rate |-> tts_engine.rate]
    /\ \/ \E size \in AudioSizes :
            IF size = 0
            THEN /\ raised' = Error("TTS generation failed: TTS engine failed to generate audio file")
                 /\ UNCHANGED speech_audio
            ELSE /\ speech_audio' = size
                 /\ UNCHANGED raised
       \/ /\ raised' = Error("TTS generation failed: engine error")
          /\ UNCHANGED speech_audio
    /\ pc' = "tts_return"
    /\ UNCHANGED tts_engine
    /\ tts_unchanged

----------------------------------------------------------------------------
(* api/voice.py: POST /voice-chat, after text_to_speech *)

\* the audio is streamed back; when text_to_speech failed the JSON answer is
\* returned instead
VoiceChatRespond ==
    /\ pc = "tts_return"
    /\ endpoint = "voice_chat"
    /\ response' = [status |-> 200, detail |-> NoError]
    /\ pc' = "responded"
    /\ UNCHANGED <<audio_data, language, fmt_idx, load_errors, audio_segment,
                   temp_file, recognition_results, active, calls, heard,
                   returned_by, raised, text, result, vosk_model, vosk_locals,
                   endpoint, tts_vars, pool_vars, raw_text>>

----------------------------------------------------------------------------
(* api/voice.py: POST /text-to-speech, POST /test and GET /health, the      *)
(* callers of text_to_speech that do not transcribe first                   *)

\* _initialize_tts found an engine, or failed and left self.tts_engine None
InitSpeech ==
    /\ pc = "idle"
    /\ audio_data = [size |-> 0, decodable |-> {}]
    /\ language = "vi-VN"
    /\ fmt_idx = 1
    /\ load_errors = <<>>
    /\ audio_segment = NoSegment
    /\ temp_file = NoFile
    /\ recognition_results = <<>>
    /\ active = "none"
    /\ calls = [b \in Backends |-> 0]
    /\ heard = NoReturn
    /\ returned_by = "none"
    /\ raised = NoError
    /\ text = <<>>
    /\ result = NoResult
    /\ response = NoResponse
    /\ vosk_model = None
    /\ rec_model = None
    /\ final_results = <<>>
    /\ word_results = <<>>
    /\ partial_results = <<>>
    /\ endpoint = "none"
    /\ ai_response_text = NoText
    /\ tts_call = NoCall
    /\ tts_engine \in {InitialEngine, NoEngine}
    /\ utterance = NoUtterance
    /\ speech_audio = 0
    /\ task = [r \in Requests |-> "none"]
    /\ job = [r \in Requests |-> "none"]
    /\ req = [r \in Requests |-> NoRequest]
    /\ wav = [r \in Requests |-> FALSE]
    /\ model_loads = 0
    /\ raw_text = <<>>

\* voices asked of text_to_speech: none, or the id of another voice
Voices == {None, "voice-b"}

\* request.speed in hundredths: below, at and above the values whose rate is
\* 50 and 300
RequestSpeeds == {-100, 0, 33, 34, 100, 133, 200, 201}

\* "Xin chào, tôi là Bixby!", the text of /test
TestText == [len |-> 23, blank |-> FALSE]

\* "Test", the text of health_check
HealthText == [len |-> 4, blank |-> FALSE]

\* speed=2.0 in health_check
HealthSpeed == 200

speech_unchanged ==
    UNCHANGED <<audio_data, fmt_idx, load_errors, audio_segment, temp_file,
                recognition_results, active, calls, heard, returned_by, text,
                result, vosk_model, vosk_locals, ai_response_text, tts_engine,
                pool_vars, raw_text>>

\* the call of voice_service.text_to_speech by an endpoint
CallTextToSpeech(name, lang, call) ==
    /\ endpoint' = name
    /\ language' = lang
    /\ tts_call' = call
    /\ utterance' = NoUtterance
    /\ speech_audio' = 0
    /\ raised' = NoError
    /\ response' = NoResponse
    /\ pc' = "tts"
    /\ speech_unchanged

\* text_to_speech of the API: a text over 1000 characters or blank is
\* answered with 400, the others are handed to the service with the
\* language, voice and speed of the request
TextToSpeechRequest ==
    /\ pc \in {"idle", "responded"}
    /\ \E t \in SpokenTexts, lang \in Languages, v \in Voices, s \in RequestSpeeds :
        IF t.len > MaxTextLength \/ t.blank
        THEN /\ endpoint' = "text_to_speech"
             /\ language' = lang
             /\ tts_call' = NoCall
             /\ utterance' = NoUtterance
             /\ speech_audio' = 0
             /\ raised' = NoError
             /\ response' = [status |-> 400,
                             detail |-> IF t.len > MaxTextLength
                                        THEN Error("Text too long. Maximum length is 1000 characters.")
                                        ELSE Error("Empty text provided")]
             /\ pc' = "responded"
             /\ speech_unchanged
        ELSE CallTextToSpeech("text_to_speech", lang,
                              [text |-> t, voice |-> v, speed |-> s])

\* test_voice_pipeline: text_to_speech(test_text, language="vi-VN")
TestVoicePipeline ==
    /\ pc \in {"idle", "responded"}
    /\ CallTextToSpeech("test", "vi-VN",
                        [text |-> TestText, voice |-> None, speed |-> DefaultSpeed])

\* health_check: text_to_speech("Test", speed=2.0) when there is an engine,
\* else the status is returned without a call
HealthCheck ==
    /\ pc \in {"idle", "responded"}
    /\ IF tts_engine # NoEngine
       THEN CallTextToSpeech("health", "vi-VN",
                             [text |-> HealthText, voice |-> None, speed |-> HealthSpeed])
       ELSE /\ endpoint' = "health"
            /\ language' = "vi-VN"
            /\ tts_call' = NoCall
            /\ utterance' = NoUtterance
            /\ speech_audio' = 0
            /\ raised' = NoError
            /\ response' = [status |-> 200, detail |-> NoError]
            /\ pc' = "responded"
            /\ speech_unchanged

\* after text_to_speech: /text-to-speech streams the audio or answers 500,
\* /test and /health report the outcome in a 200 answer
SpeechRespond ==
    /\ pc = "tts_return"
    /\ endpoint \in {"text_to_speech", "test", "health"}
    /\ response' = IF endpoint = "text_to_speech" /\ raised # NoError
                   THEN [status |-> 500, detail |-> Error("Speech generation failed")]
                   ELSE [status |-> 200, detail |-> NoError]
    /\ pc' = "responded"
    /\ UNCHANGED <<audio_data, language, fmt_idx, load_errors, audio_segment,
                   temp_file, recognition_results, active, calls, heard,
                   returned_by, raised, text, result, vosk_model, vosk_locals,
                   endpoint, tts_vars, pool_vars, raw_text>>

----------------------------------------------------------------------------
(* Concurrent requests. Each request is a coroutine on the event loop that   *)
(* hands its blocking functions (convert_sync, recognize_sync,               *)
(* generate_speech) to self.executor and awaits them. The steps of a         *)
(* function are split where it reads or writes what other threads share:     *)
(* self._vosk_model, self.tts_engine and the temporary file.                 *)

\* ThreadPoolExecutor(max_workers=2)
max_workers == 2

\* the model directories found for a Vietnamese and for an English request
PoolPaths ==
    { ModelPath(lang, None, {"./data/models/vosk-vi", "./data/models/vosk-en"}) :
        lang \in {"vi-VN", "en-US"} }

\* speeds (in hundredths) asked of text_to_speech by concurrent requests
Speeds == {50, 200}

TranscribeRequests ==
    [kind : {"transcribe"}, model_path : PoolPaths, voice : {None}, speed : {0}]
SpeechRequests ==
    [kind : {"speak"}, model_path : {None}, voice : Voices, speed : Speeds]

\* the coroutine has ended, or there is none yet
Ended(r) == task[r] \in {"none", "done", "cancelled"}
\* the function handed to the executor has returned or raised
Finished(r) == job[r] \in {"finished", "failed"}
\* a worker thread is executing the function
Running(r) == job[r] \notin {"none", "queued", "finished", "failed"}

pool_unchanged ==
    UNCHANGED <<pc, audio_data, language, fmt_idx, load_errors, audio_segment,
                temp_file, recognition_results, active, calls, heard,
                returned_by, raised, text, result, response, vosk_locals,
                endpoint, ai_response_text, tts_call, utterance, speech_audio,
                raw_text>>

\* transcribe_audio: the temporary file is created and convert_sync is handed
\* to the executor
StartTranscription(r) ==
    /\ Ended(r)
    /\ job[r] \in {"none", "finished", "failed"}
    /\ \E q \in TranscribeRequests : req' = [req EXCEPT ![r] = q]
    /\ wav' = [wav EXCEPT ![r] = TRUE]
    /\ task' = [task EXCEPT ![r] = "convert"]
    /\ job' = [job EXCEPT ![r] = "queued"]
    /\ UNCHANGED <<vosk_model, tts_engine, model_loads>>
    /\ pool_unchanged

\* text_to_speech: generate_speech is handed to the executor
StartSpeech(r) ==
    /\ Ended(r)
    /\ job[r] \in {"none", "finished", "failed"}
    /\ tts_engine # NoEngine
    /\ \E q \in SpeechRequests : req' = [req EXCEPT ![r] = q]
    /\ task' = [task EXCEPT ![r] = "speak"]
    /\ job' = [job EXCEPT ![r] = "queued"]
    /\ UNCHANGED <<vosk_model, tts_engine, wav, model_loads>>
    /\ pool_unchanged

\* a free worker thread takes the function of the request
RunJob(r) ==
    /\ job[r] = "queued"
    /\ Cardinality({q \in Requests : Running(q)}) < max_workers
    /\ job' = [job EXCEPT ![r] = IF task[r] = "convert" THEN "converting"
                                 ELSE IF task[r] = "recognize" THEN "google"
                                 ELSE "configure"]
    /\ UNCHANGED <<vosk_model, tts_engine, task, req, wav, model_loads>>
    /\ pool_unchanged

\* convert_sync on its thread: decoding and processing, then
\* audio_segment.export(output_path) writes the file, creating it when it is
\* not there; or an exception before the export
ConvertOnThread(r) ==
    /\ job[r] = "converting"
    /\ \/ /\ wav' = [wav EXCEPT ![r] = TRUE]
          /\ job' = [job EXCEPT ![r] = "finished"]
       \/ /\ job' = [job EXCEPT ![r] = "failed"]
          /\ UNCHANGED wav
    /\ UNCHANGED <<vosk_model, tts_engine, task, req, model_loads>>
    /\ pool_unchanged

\* transcribe_audio resumes after the conversion: recognize_sync is handed to
\* the executor, or the exception leaves through the finally clause, which
\* removes the file
AwaitConvert(r) ==
    /\ task[r] = "convert"
    /\ Finished(r)
    /\ IF job[r] = "finished"
       THEN /\ task' = [task EXCEPT ![r] = "recognize"]
            /\ job' = [job EXCEPT ![r] = "queued"]
            /\ UNCHANGED wav
       ELSE /\ task' = [task EXCEPT ![r] = "done"]
            /\ job' = [job EXCEPT ![r] = "none"]
            /\ wav' = [wav EXCEPT ![r] = FALSE]
    /\ UNCHANGED <<vosk_model, tts_engine, req, model_loads>>
    /\ pool_unchanged

\* recognize_sync on its thread, step 1: Google returns a usable text, or Vosk
\* is next
GoogleOnThread(r) ==
    /\ job[r] = "google"
    /\ \E usable \in BOOLEAN :
        job' = [job EXCEPT ![r] = IF usable THEN "finished" ELSE "vosk_test"]
    /\ UNCHANGED <<vosk_model, tts_engine, task, req, wav, model_loads>>
    /\ pool_unchanged

\* _try_vosk_recognition: "if ... self._vosk_model is None"
TestVoskModel(r) ==
    /\ job[r] = "vosk_test"
    /\ job' = [job EXCEPT ![r] = IF vosk_model = None THEN "vosk_load" ELSE "vosk_stream"]
    /\ UNCHANGED <<vosk_model, tts_engine, task, req, wav, model_loads>>
    /\ pool_unchanged

\* "self._vosk_model = Model(model_path)": the model is constructed and
\* stored, or the constructor raises
LoadVoskModel(r) ==
    /\ job[r] = "vosk_load"
    /\ \/ /\ vosk_model' = req[r].model_path
          /\ model_loads' = model_loads + 1
          /\ job' = [job EXCEPT ![r] = "vosk_stream"]
       \/ /\ job' = [job EXCEPT ![r] = "failed"]
          /\ UNCHANGED <<vosk_model, model_loads>>
    /\ UNCHANGED <<tts_engine, task, req, wav>>
    /\ pool_unchanged

\* the stream through KaldiRecognizer and the rest of recognize_sync: a text is
\* returned or every backend has failed
StreamOnThread(r) ==
    /\ job[r] = "vosk_stream"
    /\ \E usable \in BOOLEAN :
        job' = [job EXCEPT ![r] = IF usable THEN "finished" ELSE "failed"]
    /\ UNCHANGED <<vosk_model, tts_engine, task, req, wav, model_loads>>
    /\ pool_unchanged

\* transcribe_audio resumes after the recognition: the finally clause removes
\* the file and the result is returned
AwaitRecognize(r) ==
    /\ task[r] = "recognize"
    /\ Finished(r)
    /\ task' = [task EXCEPT ![r] = "done"]
    /\ job' = [job EXCEPT ![r] = "none"]
    /\ wav' = [wav EXCEPT ![r] = FALSE]
    /\ UNCHANGED <<vosk_model, tts_engine, req, model_loads>>
    /\ pool_unchanged

\* generate_speech on its thread: setProperty('voice', ...) when a voice is
\* given and the engine accepts it, then setProperty('rate', ...)
ConfigureOnThread(r) ==
    /\ job[r] = "configure"
    /\ \E accepted \in BOOLEAN :
        tts_engine' = [voice |-> IF req[r].voice # None /\ accepted
                                 THEN req[r].voice ELSE tts_engine.voice,
                       rate |-> Rate(req[r].speed)]
    /\ job' = [job EXCEPT ![r] = "save"]
    /\ UNCHANGED <<vosk_model, task, req, wav, model_loads>>
    /\ pool_unchanged

\* save_to_file and runAndWait with the properties the engine has now; the
\* audio is returned or an exception raised
SaveOnThread(r) ==
    /\ job[r] = "save"
    /\ \E size \in AudioSizes :
        job' = [job EXCEPT ![r] = IF size = 0 THEN "failed" ELSE "finished"]
    /\ UNCHANGED <<vosk_model, tts_engine, task, req, wav, model_loads>>
    /\ pool_unchanged

\* text_to_speech resumes and returns the audio or raises
AwaitSpeech(r) ==
    /\ task[r] = "speak"
    /\ Finished(r)
    /\ task' = [task EXCEPT ![r] = "done"]
    /\ job' = [job EXCEPT ![r] = "none"]
    /\ UNCHANGED <<vosk_model, tts_engine, req, wav, model_loads>>
    /\ pool_unchanged

\* The awaiting coroutine is cancelled: CancelledError is raised at its await,
\* the finally clause of transcribe_audio removes the file, and the future of
\* the executor is cancelled, which stops a function that has not started and
\* leaves a running one to run to its end.
Cancel(r) ==
    /\ task[r] \in {"convert", "recognize", "speak"}
    /\ task' = [task EXCEPT ![r] = "cancelled"]
    /\ job' = [job EXCEPT ![r] = IF job[r] = "queued" THEN "none" ELSE job[r]]
    /\ wav' = [wav EXCEPT ![r] = FALSE]
    /\ UNCHANGED <<vosk_model, tts_engine, req, model_loads>>
    /\ pool_unchanged

----------------------------------------------------------------------------

Next ==
    \/ Upload
    \/ Decode
    \/ SkipPreprocessing
    \/ StripSilence
    \/ Normalize
    \/ CompressDynamicRange
    \/ SetFormat
    \/ Pad
    \/ CheckAndExport
    \/ LoadAudio
    \/ GoogleCall
    \/ GoogleReturn
    \/ VoskCall
    \/ VoskOpen
    \/ VoskStream
    \/ VoskCompile
    \/ SphinxCall
    \/ SphinxReturn
    \/ Summary
    \/ CleanAndReturn
    \/ HandleException
    \/ Respond

Spec == Init /\ [][Next]_vars

\* self.recognizer.operation_timeout: no limit on the wait for the cloud
operation_timeout == None

\* a step that does not wait for the cloud: every step but the return of
\* recognize_google, which needs the answer of the service or a timeout
LocalStep == (active = "Google" => operation_timeout # None) /\ Next

\* The worker thread and the event loop run every step that is enabled; the
\* answer of the cloud service is not guaranteed, and with operation_timeout
\* None nothing else ends the wait.
SpecLive == Init /\ [][Next]_vars /\ WF_vars(LocalStep)

\* a request of /voice-chat
NextVoice ==
    \/ VoiceChatUpload
    \/ Decode
    \/ SkipPreprocessing
    \/ StripSilence
    \/ Normalize
    \/ CompressDynamicRange
    \/ SetFormat
    \/ Pad
    \/ CheckAndExport
    \/ LoadAudio
    \/ GoogleCall
    \/ GoogleReturn
    \/ VoskCall
    \/ VoskOpen
    \/ VoskStream
    \/ VoskCompile
    \/ SphinxCall
    \/ SphinxReturn
    \/ Summary
    \/ CleanAndReturn
    \/ HandleException
    \/ VoiceChatReply
    \/ ConfigureSpeech
    \/ GenerateSpeech
    \/ VoiceChatRespond

SpecVoice == Init /\ [][NextVoice]_vars

\* concurrent requests on the executor
NextPool ==
    \/ \E r \in Requests : StartTranscription(r)
    \/ \E r \in Requests : StartSpeech(r)
    \/ \E r \in Requests : RunJob(r)
    \/ \E r \in Requests : ConvertOnThread(r)
    \/ \E r \in Requests : AwaitConvert(r)
    \/ \E r \in Requests : GoogleOnThread(r)
    \/ \E r \in Requests : TestVoskModel(r)
    \/ \E r \in Requests : LoadVoskModel(r)
    \/ \E r \in Requests : StreamOnThread(r)
    \/ \E r \in Requests : AwaitRecognize(r)
    \/ \E r \in Requests : ConfigureOnThread(r)
    \/ \E r \in Requests : SaveOnThread(r)
    \/ \E r \in Requests : AwaitSpeech(r)
    \/ \E r \in Requests : Cancel(r)

SpecPool == Init /\ [][NextPool]_vars

\* the sanitizer applied to a text, and again to its result
NextClean == Sanitize

SpecClean == InitClean /\ [][NextClean]_vars

\* the requests that speak a text, one after the other on the shared engine
NextSpeech ==
    \/ TextToSpeechRequest
    \/ TestVoicePipeline
    \/ HealthCheck
    \/ ConfigureSpeech
    \/ GenerateSpeech
    \/ SpeechRespond

SpecSpeech == InitSpeech /\ [][NextSpeech]_vars

----------------------------------------------------------------------------
(* Properties of the recognition chain *)

\* the service has returned a result for the request
Returned == pc \in {"return", "responded"} /\ "text" \in DOMAIN result

\* backend b was called and its call ended without a returned text; for Sphinx
\* this includes the attempt that is not made for a non-English language
EndedWithoutSuccess(b) ==
    \/ calls[b] = 1 /\ active # b /\ returned_by # b
    \/ /\ b = "Sphinx"
       /\ ~StartsWithEn(language)
       /\ calls["Vosk"] = 1 /\ active = "none" /\ returned_by = "none"
       /\ pc \notin {"vosk_open", "vosk_stream", "vosk_compile", "sphinx"}

\* every backend of the chain has been tried, as far as it applies
ChainExhausted ==
    /\ calls["Google"] = 1
    /\ calls["Vosk"] = 1
    /\ calls["Sphinx"] = 1 \/ ~StartsWithEn(language)
    /\ active = "none"
    /\ returned_by = "none"

\* C1: when Google returns a text that is non-empty after trimming, the
\* request ends at once with the trimmed text: Vosk and Sphinx are not called
\* and nothing is recorded in the trail.
C1_GoogleShortCircuit ==
    (heard.backend = "Google" /\ Usable(heard.text)) =>
        /\ returned_by = "Google"
        /\ pc \in {"clean", "return", "responded"}
        /\ calls["Vosk"] = 0
        /\ calls["Sphinx"] = 0
        /\ active = "none"
        /\ recognition_results = <<>>
        /\ pc = "clean" => text = Strip(heard.text)
        /\ Returned => result.text = _clean_transcript(Strip(heard.text))

C1_Witness ==
    /\ pc = "clean"
    /\ heard.backend = "Google"
    /\ heard.text # Strip(heard.text)
    /\ text = Strip(heard.text)
    /\ text # <<>>

\* C2: the backends are tried one after the other in the order Google, Vosk,
\* Sphinx: each at most once, a later one only after every earlier one has
\* ended without success, and the chain is exhausted only after all of them.
C2_SequentialOrder ==
    /\ \A b \in Backends : calls[b] <= 1
    /\ active # "none" => calls[active] = 1 /\ returned_by = "none"
    /\ calls["Vosk"] >= 1 => EndedWithoutSuccess("Google")
    /\ calls["Sphinx"] >= 1 => EndedWithoutSuccess("Google") /\ EndedWithoutSuccess("Vosk")
    /\ pc = "summary" => ChainExhausted

C2_Witness ==
    /\ active = "Sphinx"
    /\ calls = [b \in Backends |-> 1]

\* C3: an empty or whitespace-only text and an exception are failures of that
\* backend only: a usable text of any backend is returned as a success without
\* error, and the request fails in the recognition only after the whole chain
\* ended without a usable text.
C3_FailureIsLocal ==
    /\ Usable(heard.text) => returned_by = heard.backend
    /\ returned_by # "none" => heard.backend = returned_by /\ Usable(heard.text)
    /\ (Returned /\ returned_by # "none") =>
            /\ "error" \notin DOMAIN result
            /\ result.text # <<>>
    /\ (raised # NoError /\ calls["Google"] >= 1) =>
            /\ ChainExhausted
            /\ ~Usable(heard.text)

C3_Witness ==
    /\ Returned
    /\ returned_by = "Sphinx"
    /\ Len(recognition_results) = 2
    /\ recognition_results[1].outcome = "Request error"
    /\ recognition_results[2].outcome = "Vosk model not found"
    /\ "error" \notin DOMAIN result

\* a result with a transcript, and a result that reports a failure
ValidSuccess(r) ==
    /\ "error" \notin DOMAIN r
    /\ r.text # <<>>
    /\ r.confidence > 0

ValidFailure(r) ==
    /\ "error" \in DOMAIN r
    /\ Str(r.error) # ""
    /\ r.text = <<>>
    /\ r.word_count = 0
    /\ r.confidence = 0

\* C4: the result of transcribe_audio is never partially valid: it has a text,
\* a positive confidence and no error, or it has an error, no text, word count
\* 0 and confidence 0; the endpoint answers 200 only for a result with a text.
C4_NeverPartiallyValid ==
    Returned =>
        /\ ValidSuccess(result) \/ ValidFailure(result)
        /\ pc = "responded" => (response.status = 200 <=> ValidSuccess(result))
        /\ pc = "responded" => (response.status = 500 <=> ValidFailure(result))

C4_Witness ==
    /\ pc = "responded"
    /\ heard.backend = "Sphinx"
    /\ heard.text = <<" ">>
    /\ ValidFailure(result)
    /\ response.status = 500

\* C5: every backend attempt that ends without success adds exactly one entry
\* to the trail: the length of the trail is the number of backends that have
\* ended without success.
C5_OneEntryPerFailedAttempt ==
    Len(recognition_results) =
        Cardinality({b \in Backends : EndedWithoutSuccess(b)})

\* the messages of the exceptions raised when all backends failed
AllFailedMessages == {AllFailedError(<<>>).msg,
                      AllFailedError(<<Attempt("Google", "Could not understand audio")>>).msg,
                      AllFailedError(<<Attempt("Google", "Request error")>>).msg}

\* C6: when every backend failed, the error returned to the caller carries the
\* trail: one entry per backend, in the order Google, Vosk, Sphinx.
C6_ErrorCarriesTrail ==
    (Returned /\ "error" \in DOMAIN result /\ Str(result.error) \in AllFailedMessages) =>
        /\ Len(result.error.detail) = 3
        /\ result.error.detail[1].backend = "Google"
        /\ result.error.detail[2].backend = "Vosk"
        /\ result.error.detail[3].backend = "Sphinx"

\* C7, as stated: when a later backend succeeds after earlier ones failed, the
\* recorded attempts are part of the result returned to the caller.
C7_TrailInResult ==
    (Returned /\ returned_by # "none" /\ recognition_results # <<>>) =>
        /\ "attempts" \in DOMAIN result
        /\ result.attempts = recognition_results

\* C7, amended: on success the recorded attempts are not returned: the result
\* is the success dict of the cleaned text and has no field for the trail or
\* for an error, whatever was recorded.
C7_TrailDroppedOnSuccess ==
    (Returned /\ returned_by # "none") =>
        /\ DOMAIN result = {"text", "language", "confidence", "word_count"}
        /\ result.text = _clean_transcript(Strip(heard.text))
        /\ result.confidence = 9

C7_Witness ==
    /\ Returned
    /\ returned_by = "Vosk"
    /\ recognition_results = <<Attempt("Google", "Could not understand audio")>>

----------------------------------------------------------------------------
(* Properties of the conversion *)

Canonical(w) ==
    /\ w.frame_rate = 16000
    /\ w.channels = 1
    /\ w.sample_width = 2

\* C8: the waveform handed to the recognition is 16000 Hz, mono, 16-bit: the
\* segment that is exported and the WAV file written from it, padded or not,
\* preprocessed or not.
C8_CanonicalFormat ==
    /\ pc = "check" => Canonical(audio_segment)
    /\ temp_file.kind = "WAV" => Canonical(temp_file)

C8_Witness ==
    /\ pc = "load"
    /\ temp_file.kind = "WAV"
    /\ temp_file.len = PadTo

\* C9, as stated: the waveform handed to the recognition lasts at least 500 ms.
C9_AtLeast500ms ==
    temp_file.kind = "WAV" => temp_file.len >= 500

\* C9, amended: the waveform handed to the recognition lasts at least 300 ms:
\* a waveform under 300 ms is padded with trailing silence to 500 ms, one of
\* 300 ms or more is left as it is, and none is rejected for being too short.
C9_PaddedBelow300ms ==
    /\ [](temp_file.kind = "WAV" => temp_file.len >= PadBelow)
    /\ [](pc = "check" => audio_segment.len >= PadBelow)
    /\ [](raised # Error("Audio segment is empty after processing"))
    /\ [][pc = "pad" =>
            /\ audio_segment.len < PadBelow =>
                    /\ audio_segment'.len = PadTo
                    /\ audio_segment'.pad = PadTo - audio_segment.len
            /\ audio_segment.len >= PadBelow => audio_segment' = audio_segment]_vars

C9_Witness ==
    /\ pc = "load"
    /\ temp_file.kind = "WAV"
    /\ temp_file.len >= PadBelow
    /\ temp_file.len < PadTo

\* C10: when a step of the normalization has produced a zero-length waveform,
\* the conversion fails and no waveform is written for the recognition. At the
\* final check a segment that consists of padding only is such a waveform.
C10_EmptyIsRejected ==
    [][(pc = "check" /\ audio_segment.pad = audio_segment.len) =>
            /\ pc' = "except"
            /\ temp_file' = temp_file]_vars

----------------------------------------------------------------------------
(* Properties of the decoding *)

\* the formats before position i of formats_to_try, in order
Tried(i) == SubSeq(formats_to_try, 1, i - 1)

\* C11, as stated: the interpretation that is used has yielded a waveform
\* with a non-zero frame count.
C11_UsedHasFrames ==
    pc = "preprocess" => audio_segment.len > 0

\* C11, amended: the interpretations are tried one at a time in the order of
\* formats_to_try, each from the original bytes and with no segment left by a
\* failed attempt; the first interpretation that decodes without raising is
\* the one used, whatever the length of its waveform, zero included, and no
\* interpretation after it is attempted.
C11_FirstDecodableWins ==
    /\ [](pc = "decode" =>
            /\ audio_segment = NoSegment
            /\ fmt_idx \in 1..(Len(formats_to_try) + 1)
            /\ load_errors = Tried(fmt_idx)
            /\ \A j \in 1..(fmt_idx - 1) : formats_to_try[j] \notin audio_data.decodable)
    /\ [](audio_segment # NoSegment =>
            /\ fmt_idx \in 1..Len(formats_to_try)
            /\ formats_to_try[fmt_idx] \in audio_data.decodable
            /\ \A j \in 1..(fmt_idx - 1) : formats_to_try[j] \notin audio_data.decodable
            /\ load_errors = Tried(fmt_idx))
    /\ [][pc = "decode" => audio_data' = audio_data]_vars

C11_Witness ==
    /\ pc = "preprocess"
    /\ fmt_idx = 3
    /\ load_errors = <<"auto", "webm">>
    /\ audio_segment.len = 0

UnsupportedFormat ==
    Error("Unsupported audio format. Ensure ffmpeg is installed and audio is valid.")

\* C12, as stated: when every interpretation fails, the error returned to the
\* caller carries the list of the failure reasons, one entry for each
\* interpretation tried and at least one.
C12_ErrorCarriesReasons ==
    (pc \in {"return", "responded"} /\ HasError(result) /\ result.error.msg = UnsupportedFormat.msg) =>
        /\ result.error.detail = load_errors
        /\ Len(result.error.detail) >= 1

\* C12, amended: when every interpretation fails, the error returned to the
\* caller is the unsupported-format error with its fixed message and nothing
\* else; the failure reasons, one for each of the seven interpretations in
\* their order, are collected in load_errors, which is logged and not returned.
C12_ReasonsOnlyCollected ==
    /\ raised.msg = UnsupportedFormat.msg =>
            /\ raised = UnsupportedFormat
            /\ load_errors = formats_to_try
            /\ fmt_idx = Len(formats_to_try) + 1
            /\ audio_segment = NoSegment
    /\ (pc \in {"return", "responded"} /\ raised = UnsupportedFormat) =>
            /\ result = ErrorResult(UnsupportedFormat, language)
            /\ result.error.detail = <<>>
    /\ (pc = "responded" /\ raised = UnsupportedFormat) =>
            response = [status |-> 500, detail |-> UnsupportedFormat]

C12_Witness ==
    /\ pc = "responded"
    /\ raised = UnsupportedFormat
    /\ load_errors = formats_to_try

----------------------------------------------------------------------------
(* Properties of the Vosk attempt *)

EmptyTranscript == Attempt("Vosk", "Vosk produced empty transcript")

\* the position in partial_results of the first partial of the greatest length
FirstLongest ==
    CHOOSE i \in 1..Len(partial_results) :
        /\ \A j \in 1..Len(partial_results) : Len(partial_results[j]) <= Len(partial_results[i])
        /\ \A j \in 1..(i - 1) : Len(partial_results[j]) < Len(partial_results[i])

\* the strongest signal collected from the stream
Signal ==
    IF final_results # <<>> THEN Join(final_results)
    ELSE IF word_results # <<>> THEN Join(word_results)
    ELSE IF partial_results # <<>> THEN partial_results[FirstLongest]
    ELSE <<>>

\* C14, as stated: the Vosk attempt reports no speech only when the final
\* segments, the words and the partials are all empty.
C14_NoSpeechOnlyWhenAllEmpty ==
    [][(pc = "vosk_compile" /\ recognition_results' = Append(recognition_results, EmptyTranscript)) =>
            /\ final_results = <<>>
            /\ word_results = <<>>
            /\ partial_results = <<>>]_vars

\* C14, amended: at the end of the stream the text of the Vosk attempt is the
\* trimmed strongest signal: the space-joined final segments if any was
\* collected, else the space-joined words if any, else the first longest
\* partial; a weaker signal is used only when every stronger list is empty,
\* and the attempt reports an empty transcript exactly when the trimmed
\* strongest signal is empty, weaker signals being ignored then.
C14_StrictPrecedence ==
    [][pc = "vosk_compile" =>
            IF Strip(Signal) = <<>>
            THEN /\ recognition_results' = Append(recognition_results, EmptyTranscript)
                 /\ heard' = heard
                 /\ pc' = "sphinx"
            ELSE /\ heard' = [backend |-> "Vosk", text |-> Strip(Signal)]
                 /\ text' = Strip(Signal)
                 /\ returned_by' = "Vosk"
                 /\ recognition_results' = recognition_results
                 /\ pc' = "clean"]_vars

C14_Witness ==
    /\ pc = "vosk_compile"
    /\ final_results = << <<"a", "a">> >>
    /\ word_results = << <<"a">> >>
    /\ partial_results = << <<"a">> >>

\* the trail with the outcome of its Vosk entry replaced
WithVoskOutcome(trail, o) ==
    [i \in 1..Len(trail) |->
        IF trail[i].backend = "Vosk" THEN Attempt("Vosk", o) ELSE trail[i]]

\* C15: a Vosk attempt that ended with an empty transcript is recorded as
\* such, and the error reported for the request differs from the error that
\* is reported when the decoder of the same backend failed.
C15_NoSpeechReportedDistinctly ==
    (pc \in {"return", "responded"} /\ HasError(result)
        /\ \E i \in 1..Len(recognition_results) : recognition_results[i] = EmptyTranscript) =>
        result.error # AllFailedError(WithVoskOutcome(recognition_results, "Vosk decoder error"))

----------------------------------------------------------------------------
(* Termination of the cloud attempt *)

\* C19: a call of the cloud backend that has been entered ends, with or
\* without an answer of the service, so that the attempt is recorded, the
\* chain goes on and the request is answered.
C19_CloudCallEnds ==
    (active = "Google") ~> (active # "Google" /\ pc # "google")

----------------------------------------------------------------------------
(* Validation at the endpoints *)

\* C13: an upload that is empty or larger than MaxAudioBytes is answered with
\* a validation error (400) and nothing of the pipeline has been started for
\* it: no temporary file, no decoding, no backend call.
C13_InvalidUploadRejected ==
    (endpoint # "none" /\ (audio_data.size = 0 \/ audio_data.size > MaxAudioBytes)) =>
        /\ pc = "responded"
        /\ response.status = 400
        /\ temp_file = NoFile
        /\ audio_segment = NoSegment
        /\ \A b \in Backends : calls[b] = 0

\* C20: whenever the engine has been told to speak, the text has at least one
\* and at most MaxTextLength characters.
C20_SpokenTextIsValid ==
    utterance # NoUtterance =>
        /\ utterance.text.len >= 1
        /\ utterance.text.len <= MaxTextLength

----------------------------------------------------------------------------
(* Properties of concurrent requests *)

\* C16: the Vosk model is constructed at most once, and once the handle is
\* cached no request changes it.
C16_ModelLoadedOnce ==
    /\ [](model_loads <= 1)
    /\ [][vosk_model # None => vosk_model' = vosk_model]_vars

\* C17: while a synthesis request is between configuring the engine and its
\* save_to_file/runAndWait, the engine has the rate that request has set: no
\* setProperty of another request has taken effect.
C17_EngineKeepsOwnSettings ==
    \A r \in Requests :
        job[r] = "save" => tts_engine.rate = Rate(req[r].speed)

\* C18: once a transcription request has ended, by a result, an error or a
\* cancellation, and its function on the worker thread has finished, its
\* temporary WAV file does not exist.
C18_TempFileRemoved ==
    \A r \in Requests :
        (req[r].kind = "transcribe" /\ task[r] \in {"done", "cancelled"}
            /\ job[r] \in {"none", "finished", "failed"}) => ~wav[r]

----------------------------------------------------------------------------
(* Properties of the preprocessing *)

AllEffects == <<"strip_silence", "normalize", "compress_dynamic_range">>

\* C27, as stated: only the silence trim depends on the duration: under 200 ms
\* it is skipped and the normalization is next, with the waveform untouched;
\* from 200 ms on the trim is applied, or fails and leaves the waveform.
C27_OnlyTrimConditional ==
    [][pc = "preprocess" =>
            IF audio_segment.len < 200
            THEN /\ pc' = "normalize"
                 /\ audio_segment' = audio_segment
            ELSE \/ /\ pc' = "normalize"
                    /\ audio_segment'.fx = <<"strip_silence">>
                 \/ /\ pc' = "format"
                    /\ audio_segment' = audio_segment]_vars

\* C27, amended: the three preprocessing steps are conditional on the duration
\* together: a decoded waveform of 200 ms or less gets none of them, a longer
\* one gets the silence trim, then the normalization, then the compression,
\* each step only after the one before it has succeeded.
C27_AllStepsConditional ==
    /\ [](pc = "preprocess" => audio_segment.fx = <<>>)
    /\ [](pc = "normalize" => audio_segment.fx = SubSeq(AllEffects, 1, 1))
    /\ [](pc = "compress" => audio_segment.fx = SubSeq(AllEffects, 1, 2))
    /\ [](pc \in {"format", "pad", "check"} =>
            \E n \in 0..3 : audio_segment.fx = SubSeq(AllEffects, 1, n))
    /\ [][pc = "preprocess" =>
            IF audio_segment.len <= 200
            THEN /\ pc' = "format"
                 /\ audio_segment' = audio_segment
            ELSE \/ /\ pc' = "normalize"
                    /\ audio_segment'.fx = <<"strip_silence">>
                    /\ audio_segment'.len <= audio_segment.len
                 \/ /\ pc' = "format"
                    /\ audio_segment' = audio_segment]_vars

C27_Witness ==
    /\ pc = "format"
    /\ audio_segment.len = 200
    /\ audio_segment.fx = <<>>

\* C30: when the preprocessing has ended, by its last step or by an exception
\* of any step, the waveform carries the effect of all three steps or of none.
C30_RawAfterFailure ==
    pc \in {"format", "pad", "check"} => audio_segment.fx \in {<<>>, AllEffects}

----------------------------------------------------------------------------
(* Further properties of a /transcribe request *)

\* the error of a request in which no backend understood the audio
NoSpeechError == Error("Audio khong the nhan dien duoc. Hay thu noi ro hon hoac ghi am lai.")

\* C26: a transcription that failed because no usable speech was found is
\* answered with a status outside the 5xx class.
C26_SoftFailure ==
    (pc = "responded" /\ endpoint = "transcribe" /\ HasError(result)
        /\ result.error = NoSpeechError) =>
        response.status \notin 500..599

\* C28: the model given to the Vosk decoder of a request is a model resolved
\* for the language of that request.
C28_ModelOfOwnLanguage ==
    pc = "vosk_stream" =>
        \E env_path \in EnvPaths, dirs \in Filesystems :
            rec_model = ModelPath(language, env_path, dirs)

----------------------------------------------------------------------------
(* Properties of the sanitizer *)

\* no whitespace at either end and no two whitespace characters in a row
Tidy(t) ==
    /\ t # <<>> => (t[1] \notin Whitespace /\ t[Len(t)] \notin Whitespace)
    /\ \A i \in 1..(Len(t) - 1) : ~(t[i] \in Whitespace /\ t[i + 1] \in Whitespace)

\* C24: for every argument, None and the empty text included, the sanitizer
\* returns a text without whitespace at its ends and without a run of
\* whitespace; None and the empty text give the empty text, and the sanitizer
\* applied to its own result returns it unchanged.
C24_TotalAndIdempotent ==
    /\ [](pc \in {"sanitized", "resanitized"} => Tidy(text))
    /\ [][(pc = "sanitize" /\ raw_text \in {<<>>, << <<>> >>}) => text' = <<>>]_vars
    /\ [][pc = "sanitized" => (text' = text /\ pc' = "resanitized")]_vars

C24_Witness ==
    /\ pc = "resanitized"
    /\ text = <<"a", " ", "a">>

\* C25: the corrections keep the casing of the text they match: as every
\* entry of the table maps a phrase to itself, the result is the argument
\* with its whitespace trimmed and collapsed, and nothing else changed.
C25_CasingPreserved ==
    [][(pc = "sanitize" /\ raw_text # <<>>) =>
            text' = CollapseWhitespace(Strip(raw_text[1]))]_vars

----------------------------------------------------------------------------
(* Properties of text_to_speech *)

SynthesisFailed ==
    raised \in {Error("TTS generation failed: TTS engine not available"),
                Error("TTS generation failed: TTS engine failed to generate audio file"),
                Error("TTS generation failed: engine error")}

\* C21: text_to_speech never returns an empty buffer: a call that returns
\* without an error returns at least one byte; without an engine, and when
\* the engine wrote no file or an empty one, the call fails with a synthesis
\* error and returns nothing.
C21_NeverEmptyAudio ==
    /\ [](pc = "tts_return" => IF raised = NoError
                               THEN speech_audio > 0
                               ELSE SynthesisFailed /\ speech_audio = 0)
    /\ [][(pc = "tts" /\ tts_engine = NoEngine) =>
            (pc' = "tts_return"
             /\ raised' = Error("TTS generation failed: TTS engine not available"))]_vars
    /\ [][(pc = "tts_save" /\ raised' = NoError) => speech_audio' > 0]_vars

C21_Witness ==
    /\ pc = "tts_return"
    /\ endpoint = "text_to_speech"
    /\ utterance # NoUtterance
    /\ raised = Error("TTS generation failed: TTS engine failed to generate audio file")

\* base_rate * speed truncated to an integer and clamped into [50, 300],
\* from the bounds of the result
IsClampedRate(rate, speed) ==
    LET scaled == BaseRate * speed    \* in hundredths
    IN  /\ rate \in 50..300
        /\ rate > 50 => 100 * rate <= scaled
        /\ rate < 300 => scaled < 100 * (rate + 1)

\* C22: the rate given to the engine is the base rate 150 scaled by the
\* speed of the request, truncated to an integer and clamped into
\* [50, 300]; no request is spoken at a rate outside that range.
C22_RateClamped ==
    /\ [][(pc = "tts" /\ pc' = "tts_save") =>
            IsClampedRate(tts_engine'.rate, tts_call.speed)]_vars
    /\ [](utterance # NoUtterance =>
            (utterance.rate \in 50..300
             /\ IsClampedRate(utterance.rate, tts_call.speed)))

C22_Witness ==
    /\ utterance # NoUtterance
    /\ tts_call.speed = 201
    /\ utterance.rate = 300

\* the voices installed: "default" is the Vietnamese voice, which is also the
\* first voice of the engine, and "voice-b" is an English voice
VoiceOfLanguage(lang) ==
    IF lang = "en-US" THEN "voice-b" ELSE "default"

\* C23: the voice of an utterance is the requested voice when it is
\* available; else the voice that matches the language of the request; else
\* the first voice of the engine.
C23_VoiceInThreeTiers ==
    [][(pc = "tts" /\ pc' = "tts_save") =>
            tts_engine'.voice = IF tts_call.voice # None /\ tts_engine'.voice = tts_call.voice
                                THEN tts_call.voice
                                ELSE VoiceOfLanguage(language)]_vars

\* C29: a request without a voice is spoken with the default voice chosen
\* when the engine was initialized, whatever voice earlier requests asked
\* for.
C29_NoVoiceCarryOver ==
    (utterance # NoUtterance /\ tts_call.voice = None) =>
        utterance.voice = InitialEngine.voice

====
